---- MODULE Spec2Model ----
(***************************************************************************)
(* A model of CardLayout (packages/client/src/game/ui/CardLayout.ts): the  *)
(* container that lays out and animates the LayoutChild objects of a hand. *)
(*                                                                         *)
(* Numbers.  The layout arithmetic of doLayout is done on exact rationals  *)
(* <<num, den>> (den > 0, lowest terms); <<0, 0>> stands for a non-finite  *)
(* result (a division by zero).  IEEE rounding is not modelled.            *)
(*                                                                         *)
(* Tweens.  konvaHelpers.animate and LayoutChild live in other files; the   *)
(* tween driver is modelled from the specification of the subsystem:       *)
(* animate creates one tween for the node and stores its handle in the     *)
(* node's tween slot, a destroyed tween never completes, a tween that      *)
(* completes applies its target values and then runs onFinish, and under   *)
(* the skip-animation option a tween resolves inside animate: the target   *)
(* values are applied and onFinish has run when animate returns.           *)
(*                                                                         *)
(* Besides the hand: the constructor and getAbsoluteCenterPos (exact sines *)
(* and cosines of the right angles), a second container that children      *)
(* move to and from, and the pace label of onPaceOrPaceRiskChanged.        *)
(***************************************************************************)
EXTENDS Integers, Sequences, FiniteSets, TLC

\* ------------------------------------------------------------------ bounds

\* Layout children that exist (the pool addChild draws from).
NumKids == 2
\* Largest hand SpecLayout constructs.
MaxCards == 4

\* --------------------------------------------------------------- rationals

Abs(n) == IF n < 0 THEN -n ELSE n

RECURSIVE GCD(_, _)
GCD(a, b) == IF b = 0 THEN a ELSE GCD(b, a % b)

NaN == <<0, 0>>
Finite(r) == r[2] # 0

Norm(n, d) ==
  IF d = 0 THEN NaN
  ELSE LET g == GCD(Abs(n), Abs(d))
           s == IF d < 0 THEN -1 ELSE 1
       IN  <<(s * n) \div g, (s * d) \div g>>

R(n) == <<n, 1>>
RAdd(a, b) == Norm(a[1] * b[2] + b[1] * a[2], a[2] * b[2])
RNeg(a) == <<-a[1], a[2]>>
RSub(a, b) == RAdd(a, RNeg(b))
RMul(a, b) == Norm(a[1] * b[1], a[2] * b[2])
RDiv(a, b) == IF Finite(a) THEN Norm(a[1] * b[2], a[2] * b[1]) ELSE NaN
\* a < b; false when either side is not finite, as a comparison with NaN is
RLess(a, b) == Finite(a) /\ Finite(b) /\ a[1] * b[2] < b[1] * a[2]
RLeq(a, b) == Finite(a) /\ Finite(b) /\ a[1] * b[2] <= b[1] * a[2]

\* ------------------------------------------------------------------- state

VARIABLES
  width, height,     \* this.width(), this.height()
  align, reverse,    \* constructor configuration
  empathy,           \* this.empathy
  animateFast,       \* globals.animateFast
  keldonMode,        \* globals.lobby.settings.keldonMode
  speedrun,          \* globals.options.speedrun
  children,          \* this.children, in container order
  kid,               \* the LayoutChild objects, by identity
  tweens,            \* the live tweens of the tween driver
  lay,               \* locals of the latest doLayout pass
  trace,             \* what the latest handler did, in order
  op,                \* the latest handler
  origRotation,      \* this.origRotation
  rotation,          \* this.rotation(), the live rotation of the scene node
  other,             \* a second CardLayout: its children and its empathy flag
  label,             \* globals.elements.paceNumberLabel
  arg,               \* the argument of the latest constructor or label call
  ret                \* what the latest constructor or getter call returned

vars == <<width, height, align, reverse, empathy, animateFast, keldonMode,
          speedrun, children, kid, tweens, lay, trace, op, origRotation,
          rotation, other, label, arg, ret>>

Kids == 1 .. NumKids

\* ------------------------------------------------- doLayout: the arithmetic

\* The first loop: the summed scaled widths of the children of positive height.
RECURSIVE UsedWidth(_, _, _, _)
UsedWidth(ks, cs, i, uw) ==
  IF i > Len(cs) THEN uw
  ELSE LET c == ks[cs[i]]
       IN  IF c.h <= 0 THEN UsedWidth(ks, cs, i + 1, uw)
           ELSE UsedWidth(ks, cs, i + 1,
                          RAdd(uw, RMul(RDiv(R(height), R(c.h)), R(c.w))))

MaxSpacing(uw) ==
  IF keldonMode THEN RMul(<<1, 40>>, uw) ELSE RMul(<<1, 25>>, uw)

RawSpacingUnguarded(uw, numCards) == RDiv(RSub(R(width), uw), R(numCards - 1))
RawSpacing(uw, numCards) ==
  IF numCards > 1 THEN RDiv(RSub(R(width), uw), R(numCards - 1)) ELSE R(0)

ClampSpacingOff(sp, uw) == sp
ClampSpacing(sp, uw) == IF RLess(MaxSpacing(uw), sp) THEN MaxSpacing(uw) ELSE sp

SpacingBetweenCards(uw, numCards) == ClampSpacing(RawSpacing(uw, numCards), uw)

TotalWidth(uw, sp, numCards) == RAdd(uw, RMul(sp, R(numCards - 1)))

StartXNoFlip(uw, rev) ==
  IF align = "center" /\ RLess(uw, R(width))
  THEN RDiv(RSub(R(width), uw), R(2)) ELSE R(0)
StartX(uw, rev) ==
  LET x == IF align = "center" /\ RLess(uw, R(width))
           THEN RDiv(RSub(R(width), uw), R(2)) ELSE R(0)
  IN  IF rev THEN RSub(R(width), x) ELSE x

Scale(c) == RDiv(R(height), R(c.h))

NewXNoReverse(x, c, rev) == x
NewX(x, c, rev) == RSub(x, IF rev THEN RMul(Scale(c), R(c.w)) ELSE R(0))

AdvanceNoSpacing(x, c, sp, rev) ==
  RAdd(x, RMul(RMul(Scale(c), R(c.w)), IF rev THEN R(-1) ELSE R(1)))
Advance(x, c, sp, rev) ==
  RAdd(x, RMul(RAdd(RMul(Scale(c), R(c.w)), sp), IF rev THEN R(-1) ELSE R(1)))


\* ----------------------------------------------------- the scene around it

\* this.getAbsolutePosition() of the container
ContainerPos == [x |-> 40, y |-> 300]
\* globals.elements.playStacks.get(suit): absolute position and height
PlayStack(suit) ==
  IF suit = 0 THEN [x |-> 200, y |-> 120, h |-> 80]
  ELSE [x |-> 290, y |-> 120, h |-> 80]
\* where a LayoutChild sits before it is added to the hand (absolute)
DeckPos == [x |-> 10, y |-> 20]

\* values of a LayoutChild's tween slot that are not a live tween
NoTween == 0
Stale == -1

\* natural (unscaled) size of the LayoutChild objects of the pool
KidSize(k) ==
  IF k % 3 = 1 THEN [w |-> 100, h |-> 100]
  ELSE IF k % 3 = 2 THEN [w |-> 60, h |-> 120]
  ELSE [w |-> 70, h |-> 100]

NewKid(sz, suit) ==
  [w |-> sz.w, h |-> sz.h, suit |-> suit,
   x |-> R(DeckPos.x), y |-> R(DeckPos.y),
   scaleX |-> <<1, 2>>, scaleY |-> <<1, 2>>,
   rotation |-> 0, opacity |-> 0, visible |-> FALSE,
   doMisplayAnimation |-> FALSE, tween |-> NoTween,
   attached |-> TRUE, cardEmpathy |-> FALSE, tweening |-> FALSE]

\* One entry of the record of what a handler did.
Emit(s, e, c) == [s EXCEPT !.trace = Append(@, [e |-> e, c |-> c])]

\* ---------------------------------------------------------- tween driver

FreshId(tw) ==
  CHOOSE i \in 1 .. (Cardinality(tw) + 1) : \A t \in tw : t.id # i

\* The driver finishes tween t: the node takes the target values, the tween
\* is no longer live, and the node's slot keeps the handle of a dead tween.
Finish(s, t) ==
  [s EXCEPT !.tweens = {u \in @ : u.id # t.id},
            !.kid[t.node] =
              [@ EXCEPT !.x = t.x, !.y = t.y, !.scaleX = t.scale,
                        !.scaleY = t.scale, !.rotation = t.rotation,
                        !.opacity = t.opacity,
                        !.tween = IF @ = t.id THEN Stale ELSE @]]

\* onFinish of the layout tween
LayoutOnFinishNoDraggable(s, c) ==
  Emit([s EXCEPT !.kid[c].tweening = FALSE], "finishedTweening", c)
LayoutOnFinish(s, c) ==
  Emit(Emit([s EXCEPT !.kid[c].tweening = FALSE], "finishedTweening", c),
       "checkSetDraggable", c)

CompleteLayout(s, t) ==
  LayoutOnFinish(Emit(Finish(s, t), "settle", t.node), t.node)

\* animate(layoutChild, {x: newX, y: 0, scale, rotation: 0, opacity: 1, ...})
AnimateLayout(s, c, newX, scale, chained) ==
  LET t == [id |-> FreshId(s.tweens), node |-> c, kind |-> "layout",
            x |-> newX, y |-> R(0), scale |-> scale, rotation |-> 0,
            opacity |-> 1, lx |-> newX, ls |-> scale,
            chained |-> chained, rot0 |-> s.kid[c].rotation,
            superseded |-> FALSE]
      s1 == Emit([s EXCEPT !.tweens = @ \cup {t}, !.kid[c].tween = t.id],
                 "animate.layout", c)
  IN  IF speedrun THEN CompleteLayout(s1, t) ELSE s1

\* the closure animateToLayout
AnimateToLayout(s, c, newX, scale, chained) ==
  AnimateLayout(s, c, newX, scale, chained)

\* onFinish of the misplay tween
MisplayOnFinishNoRotation(s, t) ==
  AnimateToLayout(s, t.node, t.lx, t.ls, TRUE)
MisplayOnFinish(s, t) ==
  AnimateToLayout(Emit([s EXCEPT !.kid[t.node].rotation = 360],
                       "rotation360", t.node),
                  t.node, t.lx, t.ls, TRUE)

CompleteMisplay(s, t) == MisplayOnFinish(Finish(s, t), t)

\* animate(layoutChild, {x: playStackPos.x - pos.x, ...}) of the misplay
AnimateMisplay(s, c, newX, scale) ==
  LET ps == PlayStack(s.kid[c].suit)
      t == [id |-> FreshId(s.tweens), node |-> c, kind |-> "misplay",
            x |-> RSub(R(ps.x), R(ContainerPos.x)),
            y |-> RSub(R(ps.y), R(ContainerPos.y)),
            scale |-> RDiv(RMul(R(ps.h), scale), R(height)),
            rotation |-> 0, opacity |-> 1, lx |-> newX, ls |-> scale,
            chained |-> FALSE, rot0 |-> s.kid[c].rotation,
            superseded |-> FALSE]
      s1 == Emit([s EXCEPT !.tweens = @ \cup {t}, !.kid[c].tween = t.id],
                 "animate.misplay", c)
  IN  IF speedrun THEN CompleteMisplay(s1, t) ELSE s1


\* ------------------------------------------------- doLayout: the second loop

\* layoutChild.show()
Show(s, c) == Emit([s EXCEPT !.kid[c].visible = TRUE], "show", c)

\* if (layoutChild.tween !== null) { tween.destroy(); tween = null }
DestroyTweenSkipped(s, c) == s
DestroyTweenKeepsHandle(s, c) ==
  [s EXCEPT !.tweens = {t \in @ : t.id # s.kid[c].tween},
            !.kid[c].tween =
              IF \E t \in s.tweens : t.id = s.kid[c].tween THEN Stale ELSE @]
DestroyTween(s, c) ==
  IF s.kid[c].tween # NoTween
  THEN Emit([s EXCEPT !.tweens = {t \in @ : t.id # s.kid[c].tween},
                      !.kid[c].tween = NoTween],
            IF \E t \in s.tweens : t.id = s.kid[c].tween /\ t.kind = "misplay"
            THEN "destroy.misplay"
            ELSE IF \E t \in s.tweens : t.id = s.kid[c].tween
            THEN "destroy.layout" ELSE "destroy.stale", c)
  ELSE s

\* Bookkeeping, not code: a tween of c that is still live once the pass has
\* gone past the destroy step has been superseded by this pass.
Supersede(s, c) ==
  [s EXCEPT !.tweens =
     {IF t.node = c THEN [t EXCEPT !.superseded = TRUE] ELSE t : t \in @}]

\* the branch of globals.animateFast; the record of the pass tells a pending
\* misplay that the branch dropped from a flag that was not set
SnapKeepsMisplayFlag(s, c, newX, scale) ==
  Emit(Emit(Emit([s EXCEPT !.kid[c] =
                    [@ EXCEPT !.x = newX, !.y = R(0), !.scaleX = scale,
                              !.scaleY = scale, !.rotation = 0, !.opacity = 1]],
                 "settle", c), "checkSetDraggable", c),
       "setRaiseAndShadowOffset", c)
Snap(s, c, newX, scale) ==
  LET s1 == Emit(Emit(Emit([s EXCEPT !.kid[c] =
                    [@ EXCEPT !.x = newX, !.y = R(0), !.scaleX = scale,
                              !.scaleY = scale, !.rotation = 0, !.opacity = 1,
                              !.doMisplayAnimation = FALSE]],
                 "settle", c), "checkSetDraggable", c),
                 "setRaiseAndShadowOffset", c)
  IN  IF s.kid[c].doMisplayAnimation THEN Emit(s1, "misplay.dropped", c)
      ELSE s1

\* the animated branch
Animated(s, c, newX, scale) ==
  LET s1 == Emit(Emit([s EXCEPT !.kid[c].tweening = TRUE],
                      "startedTweening", c), "setRaiseAndShadowOffset", c)
  IN  IF s1.kid[c].doMisplayAnimation
      THEN AnimateMisplay([s1 EXCEPT !.kid[c].doMisplayAnimation = FALSE],
                          c, newX, scale)
      ELSE AnimateToLayout(s1, c, newX, scale, FALSE)

\* one iteration of the second loop; x is the cursor, rev is this.reverse
Place(s, c, x, sp, rev) ==
  LET s0 == Show(s, c)
      k == s.kid[c]
  IN  IF k.h <= 0 THEN [s |-> s0, x |-> x]
      ELSE LET s1 == Supersede(DestroyTween(s0, c), c)
               newX == NewX(x, k, rev)
               s2 == IF animateFast THEN Snap(s1, c, newX, Scale(k))
                     ELSE Animated(s1, c, newX, Scale(k))
           IN  [s |-> s2, x |-> Advance(x, k, sp, rev)]

RECURSIVE PlaceAll(_, _, _, _, _, _)
PlaceAll(s, cs, i, x, sp, rev) ==
  IF i > Len(cs) THEN s
  ELSE LET r == Place(s, cs[i], x, sp, rev)
       IN  PlaceAll(r.s, cs, i + 1, r.x, sp, rev)

\* doLayout on the children cs of a container whose reverse flag is rev; the
\* result carries the locals of the pass.
doLayoutOf(s, cs, rev) ==
  LET numCards == Len(cs)
      uw0 == UsedWidth(s.kid, cs, 1, R(0))
      sp == SpacingBetweenCards(uw0, numCards)
      uw == TotalWidth(uw0, sp, numCards)
      x0 == StartX(uw, rev)
  IN  [PlaceAll(s, cs, 1, x0, sp, rev) EXCEPT
         !.lay = [uw |-> uw, spacing |-> sp, x0 |-> x0, n |-> numCards]]

doLayout(s, cs) == doLayoutOf(s, cs, reverse)


\* ------------------------------------------------------------ the handlers

Range(f) == {f[i] : i \in DOMAIN f}

\* The state a handler works on.
Begin == [kid |-> kid, tweens |-> tweens, trace |-> << >>, lay |-> lay]

Commit(s) ==
  /\ kid' = s.kid
  /\ tweens' = s.tweens
  /\ trace' = s.trace
  /\ lay' = s.lay

Frame == UNCHANGED <<width, height, align, reverse, animateFast, keldonMode,
                     speedrun, origRotation, rotation, label, arg, ret>>

\* this.add(child); child.setAbsolutePosition(pos), with pos taken before the
\* child was added: the child's coordinates become relative to the container
SetAbsolutePositionSkipped(s, c) == s
SetAbsolutePosition(s, c) ==
  [s EXCEPT !.kid[c].x = RSub(@, R(ContainerPos.x)),
            !.kid[c].y = RSub(@, R(ContainerPos.y))]

\* this.add(child) of a child that another container holds: Konva moves
\* it, and the container it leaves gets _setChildrenIndices(), which lays
\* out the children that stay.  The two containers of the model are at the
\* same absolute position, so the child's coordinates stay as they are.
Without(cs, c) == SelectSeq(cs, LAMBDA d : d # c)
MoveFromOther(s, c) == doLayout(s, Without(other.children, c))

\* addChild(child)
AddChild(c) ==
  /\ c \notin Range(children)
  /\ LET s0 == Begin
         s1 == IF c \in Range(other.children) THEN MoveFromOther(s0, c)
               ELSE SetAbsolutePosition(s0, c)
         s2 == IF empathy
               THEN Emit([s1 EXCEPT !.kid[c].cardEmpathy = TRUE],
                         "setEmpathy.true", c)
               ELSE s1
     IN  Commit(doLayout(s2, Append(children, c)))
  /\ children' = Append(children, c)
  /\ other' = [other EXCEPT !.children = Without(@, c)]
  /\ op' = "addChild"
  /\ UNCHANGED empathy
  /\ Frame

\* doLayout(), called as it is
DoLayout ==
  /\ Commit(doLayout(Begin, children))
  /\ op' = "doLayout"
  /\ UNCHANGED <<children, empathy, other>>
  /\ Frame

\* _setChildrenIndices(), after the scene graph moved child c to the top
MoveToTop(c) ==
  /\ c \in Range(children)
  /\ children[Len(children)] # c
  /\ LET cs == Append(SelectSeq(children, LAMBDA d : d # c), c)
     IN  /\ Commit(doLayout(Begin, cs))
         /\ children' = cs
  /\ op' = "setChildrenIndices"
  /\ UNCHANGED <<empathy, other>>
  /\ Frame

\* the tween driver completes a live tween
TweenFinish(t) ==
  /\ t \in tweens
  /\ LET s0 == Emit(Begin, IF t.superseded THEN "fire.superseded"
                           ELSE IF t.kind = "misplay" THEN "fire.misplay"
                           ELSE IF t.chained THEN "fire.chained"
                           ELSE "fire.layout", t.node)
     IN  Commit(IF t.kind = "layout" THEN CompleteLayout(s0, t)
                ELSE CompleteMisplay(s0, t))
  /\ op' = "tweenFinish"
  /\ UNCHANGED <<children, empathy, other>>
  /\ Frame

\* setEmpathy(enabled): this.children.each(...)
RECURSIVE EmpathyEachStopAtAbsent(_, _, _, _)
EmpathyEachStopAtAbsent(s, cs, i, enabled) ==
  IF i > Len(cs) THEN s
  ELSE IF ~s.kid[cs[i]].attached THEN s
  ELSE EmpathyEachStopAtAbsent(
         Emit([s EXCEPT !.kid[cs[i]].cardEmpathy = enabled],
              IF enabled THEN "setEmpathy.true" ELSE "setEmpathy.false", cs[i]),
         cs, i + 1, enabled)

RECURSIVE EmpathyEach(_, _, _, _)
EmpathyEach(s, cs, i, enabled) ==
  IF i > Len(cs) THEN s
  ELSE IF ~s.kid[cs[i]].attached THEN EmpathyEach(s, cs, i + 1, enabled)
  ELSE EmpathyEach(
         Emit([s EXCEPT !.kid[cs[i]].cardEmpathy = enabled],
              IF enabled THEN "setEmpathy.true" ELSE "setEmpathy.false", cs[i]),
         cs, i + 1, enabled)

SetEmpathy(enabled) ==
  /\ IF enabled = empathy
     THEN /\ UNCHANGED <<empathy, kid, tweens, lay>>
          /\ trace' = << >>
     ELSE /\ empathy' = enabled
          /\ Commit(EmpathyEach(Begin, children, 1, enabled))
  /\ op' = IF enabled THEN "setEmpathy.true" ELSE "setEmpathy.false"
  /\ UNCHANGED <<children, other>>
  /\ Frame

\* ------------------------------------------------------- the world around

\* the game marks a card as misplayed
MarkMisplay(c) ==
  /\ ~kid[c].doMisplayAnimation
  \* the game sets the flag before it moves the card to this container
  /\ c \notin Range(children)
  /\ kid' = [kid EXCEPT ![c].doMisplayAnimation = TRUE]
  /\ trace' = << >>
  /\ op' = "markMisplay"
  /\ UNCHANGED <<children, empathy, tweens, lay, other>>
  /\ Frame

\* a rewind takes the card visual out of a LayoutChild, or puts it back
ToggleCard(c) ==
  /\ kid' = [kid EXCEPT ![c].attached = ~@]
  /\ trace' = << >>
  /\ op' = "toggleCard"
  /\ UNCHANGED <<children, empathy, tweens, lay, other>>
  /\ Frame

\* the caller turns to the second container: from now on it is `this`
Switch ==
  /\ children' = other.children
  /\ empathy' = other.empathy
  /\ other' = [children |-> children, empathy |-> empathy]
  /\ trace' = << >>
  /\ op' = "switch"
  /\ UNCHANGED <<kid, tweens, lay>>
  /\ Frame

\* layoutChild.height(0) from outside: a child in the container loses its
\* natural height
Resize(c) ==
  /\ c \in Range(children)
  /\ kid[c].h > 0
  /\ kid' = [kid EXCEPT ![c].h = 0]
  /\ trace' = << >>
  /\ op' = "resize"
  /\ UNCHANGED <<children, empathy, tweens, lay, other>>
  /\ Frame

\* globals.animateFast changes (a replay starts or ends)
ToggleAnimateFast ==
  /\ animateFast' = ~animateFast
  /\ trace' = << >>
  /\ op' = "toggleAnimateFast"
  /\ UNCHANGED <<width, height, align, reverse, keldonMode, speedrun,
                 children, empathy, kid, tweens, lay, other, origRotation,
                 rotation, label, arg, ret>>

\* --------------------------------------------- constructor and centre

\* a value that is not there: undefined, or nothing returned yet; a value
\* v that is there is <<v>>
Undefined == << >>
Some(v) == <<v>>

\* config[key] || fallback: undefined and the falsy value of the key's type
\* ("" of a string, false of a boolean) give the fallback
OrElse(v, falsy, fallback) ==
  IF v = Undefined \/ v = Some(falsy) THEN fallback ELSE v[1]
\* config.rotation ?? 0: only a value that is not there gives the fallback
Nullish(v, fallback) == IF v = Undefined THEN fallback ELSE v[1]

Thrown(message) == [kind |-> "error", message |-> message]

\* what new CardLayout(config) gives back: the object, or the error thrown
ConstructedNoHeightCheck(config) ==
  IF config.width = Undefined
  THEN Thrown("A width was not defined for a CardLayout.")
  ELSE [kind |-> "this"]
Constructed(config) ==
  IF config.width = Undefined
  THEN Thrown("A width was not defined for a CardLayout.")
  ELSE IF config.height = Undefined
  THEN Thrown("A height was not defined for a CardLayout.")
  ELSE [kind |-> "this"]

\* new CardLayout(config).  When the constructor throws, no reference to the
\* object exists: the fields stay those of no container.
Constructor(config) ==
  /\ op = "new"
  /\ arg' = config
  /\ ret' = Constructed(config)
  /\ IF ret'.kind = "this"
     THEN \* super(config): this.width() of an attribute not set is 0
          /\ width' = Nullish(config.width, 0)
          /\ height' = Nullish(config.height, 0)
          /\ align' = OrElse(config.align, "", "left")
          /\ reverse' = OrElse(config.reverse, FALSE, FALSE)
          /\ origRotation' = Nullish(config.rotation, 0)
          /\ rotation' = Nullish(config.rotation, 0)
     ELSE UNCHANGED <<width, height, align, reverse, origRotation, rotation>>
  /\ empathy' = FALSE
  /\ trace' = << >>
  /\ op' = "constructor"
  /\ UNCHANGED <<animateFast, keldonMode, speedrun, children, kid, tweens,
                 lay, other, label>>

\* Math.cos and Math.sin at deg / 180 * PI, for the right angles
CosDeg(deg) ==
  LET a == deg % 360 IN IF a = 0 THEN 1 ELSE IF a = 180 THEN -1 ELSE 0
SinDeg(deg) ==
  LET a == deg % 360 IN IF a = 90 THEN 1 ELSE IF a = 270 THEN -1 ELSE 0

\* rot = (-this.origRotation / 180) * Math.PI, kept in degrees
RotOfLiveRotation == -rotation
Rot == -origRotation

\* the four updates of pos
CenterPos(pos, w, h, rot) ==
  LET x1 == RAdd(R(pos.x), RMul(RDiv(R(w), R(2)), R(CosDeg(rot))))
      y1 == RSub(R(pos.y), RMul(RDiv(R(w), R(2)), R(SinDeg(rot))))
      x2 == RAdd(x1, RMul(RDiv(R(h), R(2)), R(SinDeg(rot))))
      y2 == RSub(y1, RMul(RDiv(R(h), R(2)), R(-CosDeg(rot))))
  IN  [kind |-> "pos", x |-> x2, y |-> y2]

\* getAbsoluteCenterPos(); pos is a fresh object, this.getAbsolutePosition()
GetAbsoluteCenterPos ==
  /\ ret.kind \in {"this", "pos"}
  /\ ret' = CenterPos(ContainerPos, width, height, Rot)
  /\ trace' = << >>
  /\ op' = "getAbsoluteCenterPos"
  /\ UNCHANGED <<width, height, align, reverse, empathy, animateFast,
                 keldonMode, speedrun, children, kid, tweens, lay,
                 origRotation, rotation, other, label, arg>>

\* the scene turns the node of the container: this.rotation(deg)
Rotate(deg) ==
  /\ ret.kind \in {"this", "pos"}
  /\ rotation # deg
  /\ rotation' = deg
  /\ trace' = << >>
  /\ op' = "rotate"
  /\ UNCHANGED <<width, height, align, reverse, empathy, animateFast,
                 keldonMode, speedrun, children, kid, tweens, lay,
                 origRotation, other, label, arg, ret>>

\* ------------------------------------------------------- the pace label

\* import { LABEL_COLOR } from "../../constants"
LABEL_COLOR == "LABEL_COLOR"

PaceRisks == {"Zero", "HighRisk", "MediumRisk", "LowRisk", "Null"}

\* data.pace.toString(), with a plus sign before a positive pace
PaceText(pace) == IF pace > 0 THEN "+" \o ToString(pace) ELSE ToString(pace)

\* the switch on data.paceRisk: the fill of a label whose fill was fill
FillOfRisk(fill, paceRisk) ==
  CASE paceRisk = "Zero" -> "#df1c2d"
    [] paceRisk = "HighRisk" -> "#ef8c1d"
    [] paceRisk = "MediumRisk" -> "#efef1d"
    [] paceRisk = "Null" -> fill
    [] OTHER -> LABEL_COLOR

\* onPaceOrPaceRiskChanged(data); data.pace is null (Undefined) or a number
OnPaceOrPaceRiskChanged(data) ==
  /\ arg' = data
  /\ IF label = Undefined
     THEN /\ ret' = Thrown("paceNumberLabel is not initialized.")
          /\ trace' = << >>
          /\ UNCHANGED label
     ELSE /\ ret' = [kind |-> "void"]
          /\ IF data.pace = Undefined
             THEN /\ label' = Some([text |-> "-", fill |-> LABEL_COLOR])
                  /\ trace' = <<[e |-> "batchDraw", c |-> 0]>>
             ELSE /\ label' = Some([text |-> PaceText(data.pace[1]),
                                    fill |-> FillOfRisk(label[1].fill,
                                                        data.paceRisk)])
                  /\ trace' = IF data.paceRisk = "Null"
                              THEN <<[e |-> "console.error", c |-> 0],
                                     [e |-> "batchDraw", c |-> 0]>>
                              ELSE <<[e |-> "batchDraw", c |-> 0]>>
  /\ op' = "onPaceOrPaceRiskChanged"
  /\ UNCHANGED <<width, height, align, reverse, empathy, animateFast,
                 keldonMode, speedrun, children, kid, tweens, lay,
                 origRotation, rotation, other>>

\* ---------------------------------------------------------- specifications

NoLayout == [uw |-> R(0), spacing |-> R(0), x0 |-> R(0), n |-> 0]

\* a second container that holds nothing
NoOther == [children |-> << >>, empathy |-> FALSE]
\* the pace label as the UI builds it
NewLabel == <<[text |-> "", fill |-> LABEL_COLOR]>>

\* What the hand's specifications do not touch: a container built without
\* rotation, no second container, the label and the calls that return values.
InitRest ==
  /\ origRotation = 0
  /\ rotation = 0
  /\ other = NoOther
  /\ label = NewLabel
  /\ arg = Undefined
  /\ ret = [kind |-> "this"]

Init ==
  /\ width = 400
  /\ height = 100
  /\ align = "center"
  /\ reverse = FALSE
  /\ empathy = FALSE
  /\ animateFast = FALSE
  /\ keldonMode = FALSE
  /\ speedrun \in BOOLEAN
  /\ children = << >>
  /\ kid = [k \in Kids |-> NewKid(KidSize(k), k % 2)]
  /\ tweens = {}
  /\ lay = NoLayout
  /\ trace = << >>
  /\ op = "init"
  /\ InitRest

Next ==
  \/ \E c \in Kids : AddChild(c)
  \/ DoLayout
  \/ \E c \in Kids : MoveToTop(c)
  \/ \E t \in tweens : TweenFinish(t)
  \/ \E c \in Kids : MarkMisplay(c)
  \/ ToggleAnimateFast

Spec == Init /\ [][Next]_vars

\* The empathy cascade, on a hand in instant mode.
InitEmpathy ==
  /\ width = 400
  /\ height = 100
  /\ align = "left"
  /\ reverse = FALSE
  /\ empathy = FALSE
  /\ animateFast = TRUE
  /\ keldonMode = FALSE
  /\ speedrun = FALSE
  /\ children = << >>
  /\ kid = [k \in Kids |-> NewKid(KidSize(k), k % 2)]
  /\ tweens = {}
  /\ lay = NoLayout
  /\ trace = << >>
  /\ op = "init"
  /\ InitRest

NextEmpathy ==
  \/ \E c \in Kids : AddChild(c)
  \/ \E e \in BOOLEAN : SetEmpathy(e)
  \/ \E c \in Kids : ToggleCard(c)

SpecEmpathy == InitEmpathy /\ [][NextEmpathy]_vars


\* One layout pass over a hand that was built beforehand: the container's
\* configuration, the mode flags and the children's natural sizes are the
\* inputs of doLayout.
LayoutWidths == {120, 250, 400, 600}
LayoutSizes ==
  {[w |-> 100, h |-> 100], [w |-> 60, h |-> 120], [w |-> 150, h |-> 100],
   [w |-> 100, h |-> 0]}

InitLayout ==
  /\ width \in LayoutWidths
  /\ height = 100
  /\ align \in {"left", "center"}
  /\ reverse \in BOOLEAN
  /\ empathy = FALSE
  /\ animateFast \in BOOLEAN
  /\ keldonMode \in BOOLEAN
  /\ speedrun = FALSE
  /\ \E n \in 0 .. MaxCards :
       /\ children = [i \in 1 .. n |-> i]
       /\ \E sz \in [1 .. n -> LayoutSizes] :
            kid = [i \in 1 .. n |-> NewKid(sz[i], 0)]
  /\ tweens = {}
  /\ lay = NoLayout
  /\ trace = << >>
  /\ op = "init"
  /\ InitRest

LayoutOnce == op = "init" /\ DoLayout

SpecLayout == InitLayout /\ [][LayoutOnce]_vars


\* A hand whose children change their natural height between the passes;
\* the skip-animation option is off.
InitResize ==
  /\ width = 400
  /\ height = 100
  /\ align = "center"
  /\ reverse = FALSE
  /\ empathy = FALSE
  /\ animateFast = FALSE
  /\ keldonMode = FALSE
  /\ speedrun = FALSE
  /\ children = << >>
  /\ kid = [k \in Kids |-> NewKid(KidSize(k), k % 2)]
  /\ tweens = {}
  /\ lay = NoLayout
  /\ trace = << >>
  /\ op = "init"
  /\ InitRest

NextResize ==
  \/ \E c \in Kids : AddChild(c)
  \/ DoLayout
  \/ \E t \in tweens : TweenFinish(t)
  \/ \E c \in Kids : Resize(c)
  \/ ToggleAnimateFast

SpecResize == InitResize /\ [][NextResize]_vars

\* Cards arrive in a hand, some of them misplayed, while the mode changes
\* and the tweens complete; the skip-animation option is off.
NextArrive ==
  \/ \E c \in Kids : AddChild(c)
  \/ \E t \in tweens : TweenFinish(t)
  \/ \E c \in Kids : MarkMisplay(c)
  \/ ToggleAnimateFast

SpecArrive == InitResize /\ [][NextArrive]_vars

\* Two hands in instant mode; children are added to either and move from
\* one to the other.
NextTwoHands ==
  \/ \E c \in Kids : AddChild(c)
  \/ \E e \in BOOLEAN : SetEmpathy(e)
  \/ Switch

SpecTwoHands == InitEmpathy /\ [][NextTwoHands]_vars

\* A container is constructed from a configuration, then asked for its
\* centre while the scene turns it.
Angles == {0, 90, 180, 270}
Configs ==
  [width : {Undefined, Some(0), Some(400)},
   height : {Undefined, Some(100), Some(150)},
   align : {Undefined, Some(""), Some("left"), Some("center")},
   reverse : {Undefined, Some(FALSE), Some(TRUE)},
   rotation : {Undefined} \cup {Some(a) : a \in Angles}]

InitContainer ==
  /\ width = 0
  /\ height = 0
  /\ align = ""
  /\ reverse = FALSE
  /\ empathy = FALSE
  /\ animateFast = FALSE
  /\ keldonMode = FALSE
  /\ speedrun = FALSE
  /\ children = << >>
  /\ kid = << >>
  /\ tweens = {}
  /\ lay = NoLayout
  /\ trace = << >>
  /\ op = "new"
  /\ origRotation = 0
  /\ rotation = 0
  /\ other = NoOther
  /\ label = NewLabel
  /\ arg = Undefined
  /\ ret = [kind |-> "none"]

NextContainer ==
  \/ \E config \in Configs : Constructor(config)
  \/ GetAbsoluteCenterPos
  \/ \E deg \in Angles : Rotate(deg)

SpecContainer == InitContainer /\ [][NextContainer]_vars

\* The pace label, updated again and again.
Paces == {Undefined} \cup {Some(p) : p \in -3 .. 5}

InitPace ==
  /\ width = 400
  /\ height = 100
  /\ align = "left"
  /\ reverse = FALSE
  /\ empathy = FALSE
  /\ animateFast = FALSE
  /\ keldonMode = FALSE
  /\ speedrun = FALSE
  /\ children = << >>
  /\ kid = << >>
  /\ tweens = {}
  /\ lay = NoLayout
  /\ trace = << >>
  /\ op = "init"
  /\ origRotation = 0
  /\ rotation = 0
  /\ other = NoOther
  /\ label \in {Undefined, NewLabel}
  /\ arg = Undefined
  /\ ret = [kind |-> "this"]

NextPace ==
  \E pace \in Paces, paceRisk \in PaceRisks :
    OnPaceOrPaceRiskChanged([pace |-> pace, paceRisk |-> paceRisk])

SpecPace == InitPace /\ [][NextPace]_vars

\* ---------------------------------------------------------------- reading

LiveTweens(c) == {t \in tweens : t.node = c}
InHand(c) == c \in Range(children)
\* the children a pass repositions
Placed == {c \in Range(children) : kid[c].h > 0}
PassOps == {"addChild", "doLayout", "setChildrenIndices"}
AfterPass == op \in PassOps
Did(e, c) == \E i \in DOMAIN trace : trace[i] = [e |-> e, c |-> c]
DidAny(e) == \E i \in DOMAIN trace : trace[i].e = e

\* ------------------------------------------------------------------ claims

\* C1 (as stated): every layout child has at most one live tween at any
\* time, and a pass that finds a child's previous tween still in flight (a
\* second pass, no completion in between) leaves that child with exactly one
\* live tween.
C1_AtMostOneTween == \A c \in DOMAIN kid : Cardinality(LiveTweens(c)) <= 1
C1_Original ==
  /\ C1_AtMostOneTween
  /\ AfterPass =>
       \A c \in Placed :
         (Did("destroy.layout", c) \/ Did("destroy.misplay", c))
           => Cardinality(LiveTweens(c)) = 1

\* C1 (amended): every layout child has at most one live tween at any time;
\* after a pass in animated mode with skip-animation off every repositioned
\* child has exactly one live tween, the one its tween slot holds, created
\* by that pass; after a pass in instant mode a repositioned child has none.
C1_OneLiveTween ==
  /\ C1_AtMostOneTween
  /\ (AfterPass /\ ~animateFast /\ ~speedrun) =>
       \A c \in Placed :
         /\ Cardinality(LiveTweens(c)) = 1
         /\ \A t \in LiveTweens(c) : t.id = kid[c].tween /\ ~t.superseded
  /\ (AfterPass /\ animateFast) =>
       \A c \in Placed : LiveTweens(c) = {} /\ kid[c].tween = NoTween

\* a second pass destroyed the first pass's tween and started its own
C1_Witness ==
  /\ AfterPass /\ ~animateFast
  /\ \E c \in Placed :
       /\ Did("destroy.layout", c)
       /\ Cardinality(LiveTweens(c)) = 1

\* C2: a tween that a pass superseded is no longer live, and no completion
\* callback runs on its behalf (neither finishedTweening and
\* checkSetDraggable of a layout tween, nor rotation(360) and the chained
\* layout tween of a misplay tween).
C2_NoSupersededCallback ==
  /\ \A t \in tweens : ~t.superseded
  /\ ~DidAny("fire.superseded")
  /\ \A c \in DOMAIN kid :
       (AfterPass /\ Did("destroy.misplay", c)) =>
         /\ ~Did("rotation360", c)
         /\ \A t \in LiveTweens(c) : ~t.chained
  /\ \A c \in DOMAIN kid :
       (AfterPass /\ Did("destroy.layout", c) /\ ~speedrun) =>
         ~Did("finishedTweening", c)

\* a pass destroyed a misplay tween that was still travelling
C2_Witness ==
  /\ AfterPass
  /\ \E c \in Placed : Did("destroy.misplay", c) /\ kid[c].rotation # 360


DidIn(tr, e, c) == \E i \in DOMAIN tr : tr[i] = [e |-> e, c |-> c]

\* C3: in animated mode a pass that finds doMisplayAnimation set on a child
\* clears the flag and starts a tween to the play stack's position relative
\* to the container, with scale playStack.height * s_i / H and rotation 0;
\* the layout tween of that child starts only in that tween's completion
\* callback, right after the rotation was set to 360, and every sibling's
\* tween is started by the same pass.
C3_TweenTargets ==
  /\ \A t \in tweens :
       t.kind = "misplay" =>
         LET ps == PlayStack(kid[t.node].suit)
             si == RDiv(R(height), R(kid[t.node].h))
         IN  /\ t.x = R(ps.x - ContainerPos.x)
             /\ t.y = R(ps.y - ContainerPos.y)
             /\ t.scale = RDiv(RMul(R(ps.h), si), R(height))
             /\ t.rotation = 0
             /\ ~kid[t.node].doMisplayAnimation
  /\ \A t \in tweens : (t.kind = "layout" /\ t.chained) => t.rot0 = 360
  /\ \A i \in DOMAIN trace :
       (trace[i].e = "animate.layout"
          /\ \E j \in 1 .. i : trace[j] \in {[e |-> "animate.misplay", c |-> trace[i].c],
                                            [e |-> "fire.misplay", c |-> trace[i].c]})
         => trace[i - 1] = [e |-> "rotation360", c |-> trace[i].c]
  /\ (AfterPass /\ ~animateFast) =>
       \A c \in Placed :
         /\ ~kid[c].doMisplayAnimation
         /\ Did("animate.misplay", c) \/ Did("animate.layout", c)
         /\ ~speedrun => LiveTweens(c) # {}

C3_PassStep ==
  \A c \in DOMAIN kid :
    (op' \in PassOps /\ ~animateFast' /\ c \in Range(children')
       /\ kid[c].h > 0 /\ kid[c].doMisplayAnimation)
      => /\ DidIn(trace', "animate.misplay", c)
         /\ ~speedrun =>
              /\ ~DidIn(trace', "animate.layout", c)
              /\ \A t \in tweens' : t.node = c => t.kind = "misplay"

C3_MisplayTwoPhase == [](C3_TweenTargets) /\ [][C3_PassStep]_vars

\* the chained layout tween is in flight, started with the rotation at 360,
\* while a sibling's layout tween from the same pass has already completed
C3_Witness ==
  \E t \in tweens :
    /\ t.kind = "layout" /\ t.chained /\ t.rot0 = 360
    /\ kid[t.node].rotation = 360
    /\ \E d \in Placed : d # t.node /\ LiveTweens(d) = {} /\ ~kid[d].tweening


\* ------------------------------------------------ reading a layout's result

\* where a pass put (instant mode) or sends (animated mode) child c of the
\* state s it produced
TargetIn(s, c) ==
  IF animateFast THEN s.kid[c].x
  ELSE (CHOOSE t \in s.tweens : t.node = c /\ t.kind = "layout").x
TargetX(c) == TargetIn([kid |-> kid, tweens |-> tweens], c)
\* s_i * w_i
ScaledWidth(c) == RMul(RDiv(R(height), R(kid[c].h)), R(kid[c].w))
AllPositive == \A c \in Range(children) : kid[c].h > 0
RMin(a, b) == IF RLess(b, a) THEN b ELSE a

\* the summed scaled widths of the children in cs
RECURSIVE SumScaledOf(_)
SumScaledOf(cs) ==
  IF cs = {} THEN R(0)
  ELSE LET c == CHOOSE c \in cs : TRUE
       IN  RAdd(ScaledWidth(c), SumScaledOf(cs \ {c}))

RECURSIVE SumScaled(_)
SumScaled(i) ==
  IF i = 0 THEN R(0) ELSE RAdd(SumScaled(i - 1), ScaledWidth(children[i]))

\* C4: in a non-reversed container whose n children all have positive
\* natural height, child i is sent to x0 plus the sum over the earlier
\* children j of (s_j * w_j + spacing), with spacing =
\* min((W - usedWidth) / (n - 1), cap) for n > 1 and x0 = 0 or the centring
\* offset; W = 400, H = 100, centre, four 100 x 100 children gives spacing
\* 0, x0 = 0 and targets 0, 100, 200, 300.
C4_Cap == RMul(IF keldonMode THEN <<25, 1000>> ELSE <<4, 100>>,
               SumScaled(Len(children)))
C4_Spacing ==
  IF Len(children) > 1
  THEN RMin(RDiv(RSub(R(width), SumScaled(Len(children))),
                 R(Len(children) - 1)), C4_Cap)
  ELSE R(0)
C4_Used ==
  RAdd(SumScaled(Len(children)), RMul(C4_Spacing, R(Len(children) - 1)))
C4_X0 ==
  IF align = "center" /\ RLess(C4_Used, R(width))
  THEN RDiv(RSub(R(width), C4_Used), R(2)) ELSE R(0)
C4_IsExample ==
  /\ width = 400 /\ height = 100 /\ align = "center" /\ ~reverse
  /\ Len(children) = 4
  /\ \A c \in Range(children) : kid[c].w = 100 /\ kid[c].h = 100
C4_TargetIsPrefixSum ==
  (op = "doLayout" /\ ~reverse /\ AllPositive) =>
    /\ \A i \in DOMAIN children :
         TargetX(children[i]) =
           RAdd(C4_X0, RAdd(SumScaled(i - 1), RMul(C4_Spacing, R(i - 1))))
    /\ C4_IsExample =>
         /\ lay.spacing = R(0) /\ lay.x0 = R(0)
         /\ \A i \in DOMAIN children : TargetX(children[i]) = R(100 * (i - 1))

\* the example hand, laid out
C4_Witness ==
  /\ op = "doLayout" /\ C4_IsExample
  /\ TargetX(children[4]) = R(300)


\* the compression cap of the active mode, on the summed scaled widths
CapOfMode ==
  RMul(IF keldonMode THEN <<25, 1000>> ELSE <<4, 100>>, SumScaled(Len(children)))
Uniform ==
  \A c, d \in Range(children) : kid[c].w = kid[d].w /\ kid[c].h = kid[d].h
Centre(c) == RAdd(TargetX(c), RDiv(ScaledWidth(c), R(2)))
\* from the centre of child i to the centre of child i + 1, in layout direction
CentreStep(i) ==
  RMul(R(IF reverse THEN -1 ELSE 1),
       RSub(Centre(children[i + 1]), Centre(children[i])))

\* C5: with n >= 2 children of one natural size the centres of consecutive
\* children are equally far apart, and the spacing between consecutive
\* children is at most the cap of the active mode: 0.04 * usedWidth, or
\* 0.025 * usedWidth under keldonMode.
C5_EqualSpacingUnderCap ==
  (op = "doLayout" /\ Len(children) >= 2 /\ Uniform /\ AllPositive) =>
    \A i \in 1 .. (Len(children) - 1) :
      /\ CentreStep(i) = CentreStep(1)
      /\ RSub(CentreStep(i), ScaledWidth(children[i])) = lay.spacing
      /\ RLeq(lay.spacing, CapOfMode)

\* a sparse hand under keldonMode: the spacing is clamped to the cap
C5_Witness ==
  /\ op = "doLayout" /\ Len(children) >= 3 /\ Uniform /\ AllPositive
  /\ keldonMode /\ reverse
  /\ RSub(CentreStep(2), ScaledWidth(children[2])) = CapOfMode
  /\ RLess(R(0), CapOfMode)

\* the same hand laid out by a container with the other value of reverse
OtherWay ==
  doLayoutOf([kid |-> kid, tweens |-> {}, trace |-> << >>, lay |-> lay],
             children, ~reverse)

\* C6: for the same children, width, height, alignment and mode flags, the
\* right edge of child i under reverse = true is W minus the left edge of
\* child i under reverse = false.
C6_ReverseMirrors ==
  op = "doLayout" =>
    \A c \in Placed :
      LET rev == IF reverse THEN TargetX(c) ELSE TargetIn(OtherWay, c)
          fwd == IF reverse THEN TargetIn(OtherWay, c) ELSE TargetX(c)
      IN  RAdd(rev, ScaledWidth(c)) = RSub(R(width), fwd)

\* a reversed, centred hand of several children with slack
C6_Witness ==
  /\ op = "doLayout" /\ reverse /\ align = "center"
  /\ Cardinality(Placed) >= 3
  /\ RLess(lay.uw, R(width))
  /\ \A c \in Placed :
       RAdd(TargetX(c), ScaledWidth(c)) = RSub(R(width), TargetIn(OtherWay, c))

\* the leftmost left edge and the rightmost right edge of the laid-out hand
LeftEdge ==
  LET c == CHOOSE c \in Placed : \A d \in Placed : RLeq(TargetX(c), TargetX(d))
  IN  TargetX(c)
RightEdge ==
  LET c == CHOOSE c \in Placed :
             \A d \in Placed : RLeq(RAdd(TargetX(d), ScaledWidth(d)),
                                    RAdd(TargetX(c), ScaledWidth(c)))
  IN  RAdd(TargetX(c), ScaledWidth(c))

\* C7: with alignment "center" and a used width (scaled widths plus spacing)
\* below W, the slack left of the laid-out hand equals the slack right of it,
\* whatever children the container holds.
C7_CentredSlack ==
  (op = "doLayout" /\ align = "center" /\ RLess(lay.uw, R(width))
     /\ Placed # {}) =>
    LeftEdge = RSub(R(width), RightEdge)

\* C8: with one child the spacing is 0 whatever W is; with no child the pass
\* touches nothing, divides by nothing and ends with used width 0.
C8_SmallHands ==
  op = "doLayout" =>
    /\ lay.n = Len(children)
    /\ lay.n = 1 => lay.spacing = R(0)
    /\ lay.n = 0 =>
         /\ trace = << >> /\ tweens = {}
         /\ Finite(lay.uw) /\ Finite(lay.spacing) /\ Finite(lay.x0)
         /\ lay.uw = R(0)

\* one child in a wide container
C8_Witness ==
  /\ op = "doLayout" /\ lay.n = 1 /\ width = 600 /\ AllPositive
  /\ lay.spacing = R(0)


EmpathyLabel(e) == IF e THEN "setEmpathy.true" ELSE "setEmpathy.false"
\* the children whose card visual is there, in container order
WithCard == SelectSeq(children, LAMBDA c : kid[c].attached)

\* C9: setEmpathy(enabled) changes nothing and notifies no card when enabled
\* is the current flag; otherwise it sets the flag and calls
\* setEmpathy(enabled) on the card visual of every child that has one, in
\* order, passing over the children that have none.
C9_Step ==
  \A e \in BOOLEAN :
    op' = EmpathyLabel(e) =>
      /\ children' = children /\ tweens' = tweens
      /\ IF e = empathy
         THEN empathy' = empathy /\ kid' = kid /\ trace' = << >>
         ELSE /\ empathy' = e
              /\ kid' = [c \in DOMAIN kid |->
                           IF InHand(c) /\ kid[c].attached
                           THEN [kid[c] EXCEPT !.cardEmpathy = e]
                           ELSE kid[c]]
              /\ trace' = [i \in 1 .. Len(WithCard) |->
                             [e |-> EmpathyLabel(e), c |-> WithCard[i]]]
C9_EmpathyCascade == [][C9_Step]_vars

\* the cascade went past a child without card visual and reached the next
C9_Witness ==
  /\ op = "setEmpathy.true" /\ empathy
  /\ Len(children) >= 2
  /\ ~kid[children[1]].attached /\ ~kid[children[1]].cardEmpathy
  /\ kid[children[2]].attached /\ kid[children[2]].cardEmpathy
  /\ trace = <<[e |-> "setEmpathy.true", c |-> children[2]]>>

\* C10: checkSetDraggable is called after every geometry settle of a child:
\* in the same pass at every instant-mode snap, and in the completion
\* callback of every layout tween, the one chained to a misplay tween
\* included.
C10_DraggableAfterSettle ==
  /\ \A i \in DOMAIN trace :
       trace[i].e = "settle" =>
         \E j \in (i + 1) .. Len(trace) :
           /\ trace[j] = [e |-> "checkSetDraggable", c |-> trace[i].c]
           /\ \A k \in (i + 1) .. (j - 1) :
                trace[k].c = trace[i].c => trace[k].e = "finishedTweening"
  /\ (AfterPass /\ animateFast) =>
       \A c \in Placed : Did("settle", c) /\ Did("checkSetDraggable", c)
  /\ \A c \in DOMAIN kid :
       (Did("fire.layout", c) \/ Did("fire.chained", c)) =>
         Did("settle", c) /\ Did("checkSetDraggable", c)

\* the layout tween chained to a misplay tween has completed
C10_Witness ==
  /\ op = "tweenFinish"
  /\ \E c \in Placed :
       /\ Did("fire.chained", c) /\ Did("checkSetDraggable", c)
       /\ kid[c].rotation = 0 /\ LiveTweens(c) = {}

\* the child that the step adds to the container
Added(c) == c \notin Range(children) /\ c \in Range(children')
\* the absolute position of child c after the step, c being in the container
AbsAfter(c) == <<RAdd(kid'[c].x, R(ContainerPos.x)),
                 RAdd(kid'[c].y, R(ContainerPos.y))>>
\* the one before the step, c not yet being in the container
AbsBefore(c) == <<kid[c].x, kid[c].y>>

\* C11 (as stated): when addChild returns, the absolute position of the
\* added child is the one it had before the call.
C11_OriginalStep ==
  \A c \in DOMAIN kid :
    (op' = "addChild" /\ Added(c)) => AbsAfter(c) = AbsBefore(c)
C11_Original == [][C11_OriginalStep]_vars

\* C11 (amended): when addChild returns in animated mode with the
\* skip-animation option off, the added child is at the absolute position
\* it had before the call and one live tween, started by the pass of
\* addChild, carries it to its slot; in instant mode a child of positive
\* natural height sits in its slot (y = 0, scale s_i, right edge at the end
\* of the laid-out hand) when addChild returns, and no tween was started.
C11_Step ==
  \A c \in DOMAIN kid :
    (op' = "addChild" /\ Added(c)) =>
      /\ children' = Append(children, c)
      /\ (~animateFast /\ ~speedrun) =>
           /\ AbsAfter(c) = AbsBefore(c)
           /\ kid'[c].scaleX = kid[c].scaleX /\ kid'[c].opacity = kid[c].opacity
           /\ \E t \in tweens' :
                /\ t.node = c /\ t.id = kid'[c].tween /\ t.id \notin {u.id : u \in tweens}
                /\ RAdd(t.lx, RMul(t.ls, R(kid[c].w))) = RAdd(lay'.x0, lay'.uw)
                /\ \A u \in tweens' : u.node = c => u = t
      /\ (animateFast /\ kid[c].h > 0) =>
           /\ kid'[c].y = R(0)
           /\ kid'[c].scaleX = RDiv(R(height), R(kid[c].h))
           /\ RAdd(kid'[c].x, RMul(kid'[c].scaleX, R(kid[c].w)))
                = RAdd(lay'.x0, lay'.uw)
           /\ kid'[c].tween = NoTween
           /\ ~DidIn(trace', "animate.layout", c)
           /\ ~DidIn(trace', "animate.misplay", c)
C11_KeepsAbsolutePosition == [][C11_Step]_vars

\* a second child was added in animated mode: it is still where it was,
\* with a tween on its way to the slot right of the first child
C11_Witness ==
  /\ op = "addChild" /\ ~animateFast /\ ~speedrun
  /\ Len(children) = 2
  /\ LET c == children[2]
     IN  /\ kid[c].x = R(DeckPos.x - ContainerPos.x)
         /\ kid[c].y = R(DeckPos.y - ContainerPos.y)
         /\ \E t \in LiveTweens(c) : RLess(R(0), t.x) /\ t.y = R(0)

\* C12: getAbsoluteCenterPos returns pos + (W/2, H/2) when the origin
\* rotation is 0 and (pos.x - H/2, pos.y + W/2) when it is 90; the rotation
\* it uses is origRotation, whatever the live rotation of the node is; the
\* call changes nothing of the container and a second call returns the same.
C12_Value ==
  op = "getAbsoluteCenterPos" =>
    /\ ret.kind = "pos"
    /\ origRotation = 0 =>
         /\ ret.x = RAdd(R(ContainerPos.x), <<width, 2>>)
         /\ ret.y = RAdd(R(ContainerPos.y), <<height, 2>>)
    /\ origRotation = 90 =>
         /\ ret.x = RSub(R(ContainerPos.x), <<height, 2>>)
         /\ ret.y = RAdd(R(ContainerPos.y), <<width, 2>>)
C12_Step ==
  op' = "getAbsoluteCenterPos" =>
    /\ UNCHANGED <<width, height, align, reverse, empathy, children, kid,
                   tweens, origRotation, rotation>>
    /\ op = "getAbsoluteCenterPos" => ret' = ret
C12_AbsoluteCentre == [](C12_Value) /\ [][C12_Step]_vars

\* the centre of a container built with rotation 90 and since turned to 0
C12_Witness ==
  /\ op = "getAbsoluteCenterPos"
  /\ origRotation = 90 /\ rotation = 0
  /\ width = 400 /\ height = 100
  /\ ret.x = R(ContainerPos.x - 50) /\ ret.y = R(ContainerPos.y + 200)
  /\ ContainerPos = [x |-> 40, y |-> 300]

\* C14: the constructor throws when the configuration has no width or no
\* height, and no container comes of it; with both it returns the container
\* with width and height as given, align "left" unless configured, reverse
\* false unless configured, origRotation 0 unless configured and empathy
\* false.
C14_Construction ==
  op = "constructor" =>
    IF arg.width = Undefined \/ arg.height = Undefined
    THEN /\ ret.kind = "error"
         /\ width = 0 /\ height = 0 /\ align = ""
    ELSE /\ ret.kind = "this"
         /\ width = arg.width[1] /\ height = arg.height[1]
         /\ align = (IF arg.align \in {Some("left"), Some("center")}
                     THEN arg.align[1] ELSE "left")
         /\ reverse = (arg.reverse = Some(TRUE))
         /\ origRotation = (IF arg.rotation = Undefined THEN 0
                            ELSE arg.rotation[1])
         /\ empathy = FALSE

\* a width but no height: the second check throws
C14_Witness ==
  /\ op = "constructor"
  /\ arg.width = Some(400) /\ arg.height = Undefined
  /\ ret = Thrown("A height was not defined for a CardLayout.")

\* C13: after onPaceOrPaceRiskChanged returns, the fill of the pace label
\* follows from the data of that call alone: with a pace, Zero gives
\* "#df1c2d", HighRisk "#ef8c1d", MediumRisk "#efef1d", LowRisk and Null
\* LABEL_COLOR, Null with an error logged; without a pace the text is "-"
\* and the fill LABEL_COLOR.
C13_FillFromData ==
  (op = "onPaceOrPaceRiskChanged" /\ ret.kind = "void") =>
    IF arg.pace = Undefined
    THEN label[1] = [text |-> "-", fill |-> LABEL_COLOR]
    ELSE /\ label[1].fill =
              (CASE arg.paceRisk = "Zero" -> "#df1c2d"
                 [] arg.paceRisk = "HighRisk" -> "#ef8c1d"
                 [] arg.paceRisk = "MediumRisk" -> "#efef1d"
                 [] arg.paceRisk \in {"LowRisk", "Null"} -> LABEL_COLOR)
         /\ arg.paceRisk = "Null" <=> DidAny("console.error")

\* the children of the container that a pass skips
Skipped == {c \in Range(children) : kid[c].h <= 0}
HoldsTween(c) == kid[c].tween # NoTween \/ LiveTweens(c) # {}

C15_Placed ==
  AfterPass =>
    \A c \in Placed :
      /\ kid[c].tween # Stale
      /\ \A t \in LiveTweens(c) : ~t.superseded /\ t.id = kid[c].tween
      /\ HoldsTween(c) => ~animateFast /\ Did("animate.layout", c)
C15_SkippedStep ==
  \A c \in DOMAIN kid :
    (op' \in PassOps /\ c \in Range(children') /\ kid[c].h <= 0) =>
      /\ kid'[c].tween = kid[c].tween
      /\ {t \in tweens' : t.node = c} = LiveTweens(c)
SlotX(i) == RAdd(C4_X0, RAdd(SumScaled(i - 1), RMul(C4_Spacing, R(i - 1))))

\* C16: a pass in instant mode leaves every child of positive natural height
\* at x = its slot, y = 0, scaleX = scaleY = s_i, rotation 0, opacity 1,
\* with doMisplayAnimation false and no live tween; the pass starts no tween
\* and runs no misplay phase, also for a child whose flag was set.
C16_InstantSnap ==
  (AfterPass /\ animateFast) =>
    /\ \A i \in DOMAIN children :
         LET c == children[i] IN
         kid[c].h > 0 =>
           /\ (~reverse /\ AllPositive) => kid[c].x = SlotX(i)
           /\ kid[c].y = R(0)
           /\ kid[c].scaleX = RDiv(R(height), R(kid[c].h))
           /\ kid[c].scaleY = kid[c].scaleX
           /\ kid[c].rotation = 0 /\ kid[c].opacity = 1
           /\ ~kid[c].doMisplayAnimation
           /\ LiveTweens(c) = {} /\ kid[c].tween = NoTween
           /\ Did("settle", c)
    /\ ~DidAny("animate.layout") /\ ~DidAny("animate.misplay")
    /\ ~DidAny("startedTweening") /\ ~DidAny("rotation360")

\* a misplayed card was added in instant mode, next to a child whose tween
\* the pass destroyed
C16_Witness ==
  /\ op = "addChild" /\ animateFast
  /\ Len(children) = 2
  /\ Did("misplay.dropped", children[2])
  /\ Did("destroy.layout", children[1])
  /\ kid[children[2]].x = RAdd(kid[children[1]].x,
                                RAdd(ScaledWidth(children[1]), lay.spacing))
  /\ tweens = {}

\* the first and the last child of the hand
First == children[1]
Last == children[Len(children)]
\* from the near edge of the first child to the far edge of the last one, in
\* layout direction
Extent ==
  IF reverse
  THEN RSub(RAdd(TargetX(First), ScaledWidth(First)), TargetX(Last))
  ELSE RSub(RAdd(TargetX(Last), ScaledWidth(Last)), TargetX(First))

\* C17: a child of non-positive natural height is made visible by the pass
\* and keeps its x, y, scale, rotation and opacity; it adds nothing to the
\* summed scaled widths; and the cursor advances past it, so that a hand
\* that begins and ends with a child of positive height extends over the
\* used width (scaled widths plus spacing * (n - 1)).
C17_SkippedChildren ==
  op = "doLayout" =>
    /\ \A c \in Skipped :
         LET k == NewKid([w |-> kid[c].w, h |-> kid[c].h], kid[c].suit)
         IN  kid[c] = [k EXCEPT !.visible = TRUE]
    /\ lay.uw = RAdd(SumScaledOf(Placed), RMul(lay.spacing, R(lay.n - 1)))
    /\ (lay.n >= 1 /\ First \in Placed /\ Last \in Placed) =>
         Extent = lay.uw

\* C18: a child of the container that has no live tween is not left
\* notified as tweening: its card visual got finishedTweening after its
\* latest startedTweening, whatever passes (in either mode) and tween
\* completions came before.
C18_TweeningPaired ==
  \A c \in Range(children) : LiveTweens(c) = {} => ~kid[c].tweening

\* C19: after any sequence of addChild and setEmpathy calls on the two
\* containers, every child that has a card visual shows empathy exactly when
\* the container that holds it has its empathy flag set.
C19_EmpathyConsistent ==
  /\ \A c \in Range(children) :
       kid[c].attached => (kid[c].cardEmpathy <=> empathy)
  /\ \A c \in Range(other.children) :
       kid[c].attached => (kid[c].cardEmpathy <=> other.empathy)

\* the target extent of child c lies in the bounding box
InBox(c) ==
  /\ RLeq(R(0), TargetX(c))
  /\ RLeq(RAdd(TargetX(c), ScaledWidth(c)), R(width))

\* C20 (as stated): with n >= 2 children of positive natural height, of
\* whatever natural sizes, every child's target extent
\* [newX, newX + s_i * w_i] lies within [0, W].
C20_Original ==
  (op = "doLayout" /\ Len(children) >= 2 /\ AllPositive) =>
    \A c \in Range(children) : InBox(c)

\* C20 (amended): with n >= 2 children of positive natural height, every
\* child's target extent lies within [0, W] when the summed scaled widths
\* do not exceed W, or when the children have one natural size whose scaled
\* width does not exceed W (the spacing may then be negative); for both
\* alignments and both values of reverse.
C20_Fits == RLeq(SumScaled(Len(children)), R(width))
C20_UniformNotWider ==
  Uniform /\ \A c \in Range(children) : RLeq(ScaledWidth(c), R(width))
C20_InsideBox ==
  (op = "doLayout" /\ Len(children) >= 2 /\ AllPositive
     /\ (C20_Fits \/ C20_UniformNotWider)) =>
    \A c \in Range(children) : InBox(c)

\* a reversed hand of one natural size that overflows: the spacing is
\* negative, the first child ends at W and the last one begins at 0
C20_Witness ==
  /\ op = "doLayout" /\ Len(children) >= 3 /\ AllPositive /\ Uniform
  /\ reverse /\ align = "center"
  /\ RLess(lay.spacing, R(0))
  /\ RAdd(TargetX(First), ScaledWidth(First)) = R(width)
  /\ TargetX(Last) = R(0)
  /\ \A c \in Range(children) : InBox(c)

====
